---- MODULE Spec2Model ----
(***************************************************************************)
(* Model of quelf's sleep-session cache (SleepSessionsCache) and of the    *)
(* walker that fills it (SleepSessions.update_cache / sleep_session),      *)
(* src/quelf/sleepcycle.py.                                                *)
(*                                                                         *)
(* SpecCache drives the cache through its own interface (construction,     *)
(* insert, reload).  SpecWalk drives update_cache against a remote whose   *)
(* records form a chain, with remote failures and process stops.           *)
(* SpecLoad constructs the cache on files it finds.  SpecFetch calls        *)
(* sleep_session as a client of SleepSessions does.  SpecCycle drives      *)
(* SleepCycle.update_sleep_sessions_cache and its sleep_sessions property. *)
(* SpecToggl drives Toggl.fetch_details, src/quelf/toggl.py, against a     *)
(* remote whose time entries change between the calls.                     *)
(***************************************************************************)
EXTENDS Integers, Sequences, FiniteSets, TLC

VARIABLES
    memory,                 \* SleepSessionsCache.memory of the live object
    file,                   \* the persistence file at SleepSessionsCache.path
    pc,                     \* where the program is
    err,                    \* the exception the last operation raised, or "none"
    run,                    \* number of SleepSessionsCache constructions so far
    hist,                   \* sessions whose insert has returned, oldest first
    chain,                  \* the remote's records, oldest first (their ids)
    cycleTo,                \* 0, or the chain index NEXT of the last record answers
    first_sleepsession_id,  \* SleepSessions.first_sleepsession_id
    last_sleepsession_id,   \* SleepSessions.last_sleepsession_id
    resp,                   \* session_response held by the walker
    http,                   \* the last request to /stat/session and its outcome
    calls,                  \* remote calls made by the current update_cache
    start,                  \* memory and file when the current update_cache began
    frame,                  \* the arguments of the current sleep_session, and its caller
    total_items,            \* the argument of the current update_cache
    cycle,                  \* the SleepCycle object: its manager and its memoized table
    details_file,           \* the file at Toggl.details_path
    entries,                \* the remote's time entries (their ids), for each year
    fetches                 \* number of calls of Toggl.fetch_details so far

vars == <<memory, file, pc, err, run, hist, chain, cycleTo,
          first_sleepsession_id, last_sleepsession_id, resp, http, calls, start,
          frame, total_items, cycle, details_file, entries, fetches>>

cacheVars == <<memory, file, pc, err, run, hist>>
remoteVars == <<chain, cycleTo, first_sleepsession_id, last_sleepsession_id>>
walkVars == <<resp, http, calls, start, frame, total_items, cycle>>
togglVars == <<details_file, entries, fetches>>
sleepVars == <<memory, file, pc, err, run, hist, chain, cycleTo,
               first_sleepsession_id, last_sleepsession_id, resp, http, calls, start,
               frame, total_items, cycle>>

(***************************************************************************)
(* Bounds                                                                  *)
(***************************************************************************)
MaxId == 10          \* ids the cache interface is driven with: 0..MaxId
MaxInserts == 3      \* inserts per behaviour of SpecCache
MaxRuns == 3         \* constructions of the cache per behaviour
MaxChain == 3        \* records of the remote chain
MaxCalls == 6        \* remote calls per update_cache
MaxTotal == 2        \* largest total_items given to update_cache
MaxEntries == 3      \* time entries the Toggl remote holds for one year
MaxFetches == 3      \* calls of Toggl.fetch_details per behaviour

CacheIds == 0..MaxId
Ratings == {2, 3}
RemoteIds == {9, 10, 11, 12}
\* total_items: 0 stands for None and for 0, which line 315 treats alike
Totals == 0..MaxTotal

(***************************************************************************)
(* Values                                                                  *)
(***************************************************************************)
\* Python's None, as returned by newest / first on a KeyError
None == [none |-> TRUE]

\* A sleep session payload (SleepSessionJSON, reduced to two of its fields)
Session(i, r) == [id |-> i, rating |-> r]

Sessions == {Session(i, r) : i \in CacheIds, r \in Ratings}

\* The record the remote holds for an id
RemoteRecord(i) == Session(i, 2)

\* IntToStr keeping only the last digit
IntToStr_LastDigit(n) == <<n % 10>>

\* str(int) for a non-negative int, as a sequence of decimal digits:
\* what json.dump does to the integer keys of a dict
RECURSIVE IntToStr(_)
IntToStr(n) == IF n < 10 THEN <<n>> ELSE IntToStr(n \div 10) \o <<n % 10>>

\* StrToInt reading only the first digit
StrToInt_FirstDigit(s) == IF Len(s) = 0 THEN 0 ELSE s[1]

\* int(str) of a sequence of decimal digits
RECURSIVE StrToInt(_)
StrToInt(s) ==
    IF Len(s) = 0 THEN 0
    ELSE 10 * StrToInt(SubSeq(s, 1, Len(s) - 1)) + s[Len(s)]

(***************************************************************************)
(* A dict is a sequence of [key, val] entries with pairwise distinct keys, *)
(* in insertion order.                                                     *)
(***************************************************************************)
EmptyDict == <<>>

DictKeys(d) == {d[i].key : i \in 1..Len(d)}

DictGet(d, k) == (CHOOSE i \in 1..Len(d) : d[i].key = k)

\* d[k] = v : an existing key keeps its place, a new key goes last
DictSet(d, k, v) ==
    IF k \in DictKeys(d)
    THEN [i \in 1..Len(d) |-> IF d[i].key = k THEN [key |-> k, val |-> v] ELSE d[i]]
    ELSE Append(d, [key |-> k, val |-> v])

\* The memory of a cache with nothing in it
EmptyMemory ==
    [sleep_sessions |-> EmptyDict, newest_session_id |-> 0, first_session_id |-> 0]

\* JsonDump holding back the session inserted last
JsonDump_HoldBack(mem) ==
    [sleep_sessions |->
        [i \in 1..(Len(mem.sleep_sessions) - 1) |->
            [key |-> IntToStr(mem.sleep_sessions[i].key),
             val |-> mem.sleep_sessions[i].val]],
     newest_session_id |-> mem.newest_session_id,
     first_session_id |-> mem.first_session_id]

\* json.dump(self.memory, cache_file): integer keys become text
JsonDump(mem) ==
    [sleep_sessions |->
        [i \in 1..Len(mem.sleep_sessions) |->
            [key |-> IntToStr(mem.sleep_sessions[i].key),
             val |-> mem.sleep_sessions[i].val]],
     newest_session_id |-> mem.newest_session_id,
     first_session_id |-> mem.first_session_id]

NoFile == [state |-> "missing", content |-> JsonDump(EmptyMemory)]
WrittenFile(mem) == [state |-> "written", content |-> JsonDump(mem)]
\* open(path, 'w') has truncated the file and json.dump has not finished
TruncatedFile == [state |-> "truncated", content |-> JsonDump(EmptyMemory)]

\* LoadMemory taking the branch for an unset newest_session_id every time
LoadMemory_NoMarkers(content) ==
    [newest_session_id |-> 0,
     first_session_id |-> 0,
     sleep_sessions |->
        [i \in 1..Len(content.sleep_sessions) |->
            [key |-> StrToInt(content.sleep_sessions[i].key),
             val |-> content.sleep_sessions[i].val]]]

\* The else branch of SleepSessionsCache.__init__: the memory read from
\* the content of an existing, complete file
LoadMemory(content) ==
    LET sleep_sessions ==
            [i \in 1..Len(content.sleep_sessions) |->
                [key |-> StrToInt(content.sleep_sessions[i].key),
                 val |-> content.sleep_sessions[i].val]]
    IN  IF content.newest_session_id # 0
        THEN [newest_session_id |-> content.newest_session_id,
              first_session_id |-> content.first_session_id,
              sleep_sessions |-> sleep_sessions]
        ELSE [newest_session_id |-> 0,
              first_session_id |-> 0,
              sleep_sessions |-> sleep_sessions]

\* SetItemMemory that sets newest_session_id only while it is unset
SetItemMemory_KeepNewest(mem, session_id, sleep_session) ==
    LET m1 == [mem EXCEPT !.sleep_sessions = DictSet(@, session_id, sleep_session)]
        m2 == IF m1.newest_session_id = 0
              THEN [m1 EXCEPT !.newest_session_id = session_id]
              ELSE m1
    IN  IF m2.first_session_id = 0
        THEN [m2 EXCEPT !.first_session_id = session_id]
        ELSE m2

\* SetItemMemory with the update of first_session_id left out
SetItemMemory_NoFirst(mem, session_id, sleep_session) ==
    LET m1 == [mem EXCEPT !.sleep_sessions = DictSet(@, session_id, sleep_session)]
    IN  [m1 EXCEPT !.newest_session_id = session_id]

\* The memory part of __setitem__, lines 254-258
SetItemMemory(mem, session_id, sleep_session) ==
    LET m1 == [mem EXCEPT !.sleep_sessions = DictSet(@, session_id, sleep_session)]
        m2 == [m1 EXCEPT !.newest_session_id = session_id]
    IN  IF m2.first_session_id = 0
        THEN [m2 EXCEPT !.first_session_id = session_id]
        ELSE m2

\* __contains__, __len__, __getitem__, newest, first
Contains(mem, session_id) == session_id \in DictKeys(mem.sleep_sessions)

Length(mem) == Len(mem.sleep_sessions)

GetItem(mem, session_id) ==
    mem.sleep_sessions[DictGet(mem.sleep_sessions, session_id)].val

Newest(mem) ==
    IF mem.newest_session_id \in DictKeys(mem.sleep_sessions)
    THEN GetItem(mem, mem.newest_session_id)
    ELSE None

First(mem) ==
    IF mem.first_session_id \in DictKeys(mem.sleep_sessions)
    THEN GetItem(mem, mem.first_session_id)
    ELSE None

(***************************************************************************)
(* The cache, driven through its interface                                 *)
(***************************************************************************)
\* The places of the program inside update_cache
Running == {"seed", "loop", "fetched", "insert", "dump_store", "dump_insert",
            "bar", "call"}

NoHttp == [id |-> 0, next |-> FALSE, previous |-> FALSE, outcome |-> "none"]
NoStart == [memory |-> EmptyMemory, file |-> NoFile]
NoFrame == [caller |-> "none", session_id |-> 0, next_ |-> FALSE, previous |-> FALSE]
\* A SleepCycle object on which nothing has been called
NoCycle == [manager |-> FALSE, memo_set |-> FALSE, memo |-> <<>>, returned |-> "none"]

\* A new object, or a new process, starts without the locals of the calls
\* made on the old one
ForgetCalls ==
    /\ resp' = None
    /\ http' = NoHttp
    /\ calls' = 0
    /\ start' = NoStart
    /\ frame' = NoFrame
    /\ total_items' = 0

\* No Toggl object is in use: no details file, a remote without entries
TogglIdle ==
    /\ details_file = [state |-> "missing", content |-> EmptyDict]
    /\ entries = [year \in {} |-> {}]
    /\ fetches = 0

InitCache ==
    /\ memory = EmptyMemory
    /\ file = NoFile
    /\ pc = "new"
    /\ err = "none"
    /\ run = 0
    /\ hist = <<>>
    /\ chain = <<>>
    /\ cycleTo = 0
    /\ first_sleepsession_id = 0
    /\ last_sleepsession_id = 0
    /\ resp = None
    /\ http = NoHttp
    /\ calls = 0
    /\ start = NoStart
    /\ frame = NoFrame
    /\ total_items = 0
    /\ cycle = NoCycle
    /\ TogglIdle

\* ConstructMissing without the dump of the empty memory
ConstructMissing_NoFile ==
    /\ run < MaxRuns
    /\ pc \notin Running
    /\ file.state = "missing"
    /\ memory' = EmptyMemory
    /\ pc' = "ready"
    /\ err' = "none"
    /\ run' = run + 1
    /\ UNCHANGED <<file, hist, remoteVars, togglVars, cycle>>
    /\ ForgetCalls

\* SleepSessionsCache.__init__ on a path where there is no file
ConstructMissing ==
    /\ run < MaxRuns
    /\ pc \notin Running
    /\ file.state = "missing"
    /\ memory' = EmptyMemory
    /\ file' = WrittenFile(EmptyMemory)
    /\ pc' = "ready"
    /\ err' = "none"
    /\ run' = run + 1
    /\ UNCHANGED <<hist, remoteVars, togglVars, cycle>>
    /\ ForgetCalls

\* The subscriptions of __init__ lines 231 and 234-237 find their keys:
\* content['sleep_sessions'], content['newest_session_id'] and, when that one
\* is not 0, content['first_session_id']
Loadable(content) ==
    /\ "sleep_sessions" \in DOMAIN content
    /\ "newest_session_id" \in DOMAIN content
    /\ content.newest_session_id # 0 => "first_session_id" \in DOMAIN content

\* SleepSessionsCache.__init__ on an existing file: a new object replaces
\* the old one, its memory read from the file
ConstructExisting ==
    /\ run < MaxRuns
    /\ pc \notin Running
    /\ file.state = "written"
    /\ Loadable(file.content)
    /\ memory' = LoadMemory(file.content)
    /\ pc' = "ready"
    /\ err' = "none"
    /\ run' = run + 1
    /\ UNCHANGED <<file, hist, remoteVars, togglVars, cycle>>
    /\ ForgetCalls

\* CacheInsert without the assertion of line 253
CacheInsert_NoAssert(session) ==
    /\ pc = "ready"
    /\ Len(hist) < MaxInserts
    /\ memory' = SetItemMemory(memory, session.id, session)
    /\ file' = WrittenFile(memory')
    /\ hist' = Append(hist, session)
    /\ err' = "none"
    /\ UNCHANGED <<pc, run, remoteVars, togglVars, walkVars>>

\* SleepSessionsCache.insert(session), that is self[int(session['id'])] = session
CacheInsert(session) ==
    /\ pc = "ready"
    /\ Len(hist) < MaxInserts
    /\ IF session.id = 0
       THEN /\ err' = "AssertionError"
            /\ UNCHANGED <<memory, file, hist>>
       ELSE /\ memory' = SetItemMemory(memory, session.id, session)
            /\ file' = WrittenFile(memory')
            /\ hist' = Append(hist, session)
            /\ err' = "none"
    /\ UNCHANGED <<pc, run, remoteVars, togglVars, walkVars>>

NextCache ==
    \/ ConstructMissing
    \/ ConstructExisting
    \/ \E session \in Sessions : CacheInsert(session)

SpecCache == InitCache /\ [][NextCache]_vars

(***************************************************************************)
(* The remote: GET /stat/session with id, and next=1 or prev=1             *)
(***************************************************************************)
Chains ==
    {c \in UNION {[1..n -> RemoteIds] : n \in 1..MaxChain} :
        \A i, j \in 1..Len(c) : i # j => c[i] # c[j]}

\* Position of an id in the chain, 0 when the remote has no such record
Index(id) ==
    IF \E i \in 1..Len(chain) : chain[i] = id
    THEN CHOOSE i \in 1..Len(chain) : chain[i] = id
    ELSE 0

\* The id of the record the remote answers with, 0 when its body is not JSON
RemoteAnswer(session_id, next_, previous) ==
    LET i == Index(session_id)
    IN  IF next_
        THEN IF i = 0 THEN 0
             ELSE IF i < Len(chain) THEN chain[i + 1]
             ELSE IF cycleTo # 0 THEN chain[cycleTo]
             ELSE 0
        ELSE IF previous
        THEN IF i > 1 THEN chain[i - 1] ELSE 0
        ELSE IF i # 0 THEN session_id ELSE 0

(***************************************************************************)
(* SleepSessions: update_cache and sleep_session                           *)
(***************************************************************************)
\* SeedNeeded ignoring what the cache holds
SeedNeeded_Always(mem) == TRUE

\* update_cache line 317: `if not self.cache.newest`
SeedNeeded(mem) == Newest(mem) = None

\* LoopContinues that never sees the newest boundary id
LoopContinues_Always(mem, last_id) == TRUE

\* update_cache line 324: `while self.last_sleepsession_id not in self.cache`
LoopContinues(mem, last_id) == ~Contains(mem, last_id)

\* NextRequestId asking for the record after the first cached one
NextRequestId_First(mem) == First(mem).id

\* update_cache line 326: session_id=self.cache.newest['id']
NextRequestId(mem) == Newest(mem).id

\* ErrorOnNonJson re-raising the parse failure whatever the direction
ErrorOnNonJson_Reraise(next_, previous) == "JSONDecodeError"

\* ErrorOnNonJson taking a request without direction for a request for the
\* previous session
ErrorOnNonJson_NeverReraise(next_, previous) ==
    IF next_ THEN "ValueError: No next sleepsession"
    ELSE "ValueError: No previous sleepsession"

\* sleep_session lines 365-371: what a body that is not JSON raises
ErrorOnNonJson(next_, previous) ==
    IF next_ THEN "ValueError: No next sleepsession"
    ELSE IF previous THEN "ValueError: No previous sleepsession"
    ELSE "JSONDecodeError"

InitWalk ==
    /\ memory = EmptyMemory
    /\ file = NoFile
    /\ pc = "new"
    /\ err = "none"
    /\ run = 0
    /\ hist = <<>>
    /\ chain \in Chains
    /\ cycleTo \in 0..Len(chain)
    /\ first_sleepsession_id \in RemoteIds
    /\ last_sleepsession_id \in RemoteIds
    /\ resp = None
    /\ http = NoHttp
    /\ calls = 0
    /\ start = NoStart
    /\ frame = NoFrame
    /\ total_items = 0
    /\ cycle = NoCycle
    /\ TogglIdle

\* SleepSessionsCache.__init__ on a file that a stopped write left incomplete:
\* json.load raises and no object is made
ConstructTruncated ==
    /\ run < MaxRuns
    /\ pc \notin Running
    /\ file.state = "truncated"
    /\ memory' = EmptyMemory
    /\ pc' = "new"
    /\ err' = "JSONDecodeError"
    /\ run' = run + 1
    /\ UNCHANGED <<file, hist, remoteVars, togglVars, cycle>>
    /\ ForgetCalls

\* update_cache(total) is called: lines 311-317
UpdateCache(total) ==
    /\ pc \in {"ready", "done", "raised"}
    /\ start' = [memory |-> memory, file |-> file]
    /\ calls' = 0
    /\ http' = NoHttp
    /\ resp' = None
    /\ err' = "none"
    /\ frame' = NoFrame
    /\ total_items' = total
    /\ pc' = IF SeedNeeded(memory) THEN "seed" ELSE "loop"
    /\ UNCHANGED <<memory, file, run, hist, remoteVars, togglVars, cycle>>

\* Where sleep_session returns to: update_cache passes the session on to
\* self.cache.insert (lines 318, 325), another caller just gets it
ReturnTo(caller) == IF caller = "update_cache" THEN "insert" ELSE "returned"

\* ServedFromCache looking in the cache whatever the direction
ServedFromCache_AnyDirection(mem, session_id, next_, previous) ==
    Contains(mem, session_id)

\* sleep_session lines 348-353: the cached session is returned only when
\* neither next_ nor previous is given
ServedFromCache(mem, session_id, next_, previous) ==
    ~next_ /\ ~previous /\ Contains(mem, session_id)

\* StoreNeeded storing every response
StoreNeeded_Always(mem, session_id) == TRUE

\* sleep_session line 361: `if session_response['id'] not in self.cache`
StoreNeeded(mem, session_id) == ~Contains(mem, session_id)

\* sleep_session up to the response, lines 347-359 and 365-371.  failure:
\* the request itself fails (no response), which requests raises
SleepSession(session_id, next_, previous, failure, caller) ==
    IF ServedFromCache(memory, session_id, next_, previous)
    THEN /\ ~failure
         /\ resp' = GetItem(memory, session_id)
         /\ pc' = ReturnTo(caller)
         /\ UNCHANGED <<err, http, calls>>
    ELSE /\ calls < MaxCalls
         /\ calls' = calls + 1
         /\ LET answer == RemoteAnswer(session_id, next_, previous)
            IN  IF failure
                THEN /\ http' = [id |-> session_id, next |-> next_,
                                 previous |-> previous, outcome |-> "error"]
                     /\ err' = "ConnectionError"
                     /\ pc' = "raised"
                     /\ resp' = resp
                ELSE IF answer # 0
                THEN /\ http' = [id |-> session_id, next |-> next_,
                                 previous |-> previous, outcome |-> "json"]
                     /\ resp' = RemoteRecord(answer)
                     /\ pc' = "fetched"
                     /\ err' = err
                ELSE /\ http' = [id |-> session_id, next |-> next_,
                                 previous |-> previous, outcome |-> "nonjson"]
                     /\ err' = ErrorOnNonJson(next_, previous)
                     /\ pc' = "raised"
                     /\ resp' = resp

\* update_cache lines 318-321: the call of sleep_session for the oldest id
Seed(failure) ==
    /\ pc = "seed"
    /\ SleepSession(first_sleepsession_id, FALSE, FALSE, failure, "update_cache")
    /\ frame' = [caller |-> "update_cache", session_id |-> first_sleepsession_id,
                 next_ |-> FALSE, previous |-> FALSE]
    /\ UNCHANGED <<memory, file, run, hist, remoteVars, togglVars, start, total_items, cycle>>

\* update_cache lines 324-328: the loop test, and the call of sleep_session
\* for the record after the newest cached one
Loop(failure) ==
    /\ pc = "loop"
    /\ IF LoopContinues(memory, last_sleepsession_id)
       THEN IF Newest(memory) = None
            THEN /\ ~failure
                 /\ pc' = "raised"
                 /\ err' = "TypeError"
                 /\ UNCHANGED <<resp, http, calls, frame>>
            ELSE /\ SleepSession(NextRequestId(memory), TRUE, FALSE, failure,
                                 "update_cache")
                 /\ frame' = [caller |-> "update_cache",
                              session_id |-> NextRequestId(memory),
                              next_ |-> TRUE, previous |-> FALSE]
       ELSE /\ ~failure
            /\ pc' = "done"
            /\ UNCHANGED <<err, resp, http, calls, frame>>
    /\ UNCHANGED <<memory, file, run, hist, remoteVars, togglVars, start, total_items, cycle>>

\* __setitem__ up to open(self.path, 'w'), lines 253-260
SetItemOpen(session_id, sleep_session, next_pc) ==
    IF session_id = 0
    THEN /\ err' = "AssertionError"
         /\ pc' = "raised"
         /\ UNCHANGED <<memory, file>>
    ELSE /\ memory' = SetItemMemory(memory, session_id, sleep_session)
         /\ file' = TruncatedFile
         /\ pc' = next_pc
         /\ err' = err

\* sleep_session lines 361-364: store the response unless its id is cached
Store ==
    /\ pc = "fetched"
    /\ IF StoreNeeded(memory, resp.id)
       THEN SetItemOpen(resp.id, resp, "dump_store")
       ELSE /\ pc' = ReturnTo(frame.caller)
            /\ UNCHANGED <<memory, file, err>>
    /\ UNCHANGED <<run, hist, remoteVars, togglVars, walkVars>>

\* update_cache lines 318 and 325: self.cache.insert(<the returned session>)
Insert ==
    /\ pc = "insert"
    /\ SetItemOpen(resp.id, resp, "dump_insert")
    /\ UNCHANGED <<run, hist, remoteVars, togglVars, walkVars>>

\* __setitem__ line 261: json.dump(self.memory, cache_file), and the return
Dump ==
    /\ pc \in {"dump_store", "dump_insert"}
    /\ file' = WrittenFile(memory)
    /\ pc' = IF pc = "dump_store" THEN ReturnTo(frame.caller) ELSE "bar"
    /\ UNCHANGED <<memory, err, run, hist, remoteVars, togglVars, walkVars>>

\* progressbar.ProgressBar.update(value) of the bar made on lines 313-316 with
\* max_value=total_items or UnknownLength: a value above a known max_value
\* raises ValueError (progressbar2, max_error left at its default)
BarRejects(total, value) == total # 0 /\ value > total

\* update_cache lines 322 and 329: bar.update(1) after the first session,
\* bar.update(len(self.cache)) after each further one
Bar ==
    /\ pc = "bar"
    /\ LET value == IF frame.next_ THEN Length(memory) ELSE 1
       IN  IF BarRejects(total_items, value)
           THEN pc' = "raised" /\ err' = "ValueError: Value out of range"
           ELSE pc' = "loop" /\ err' = err
    /\ UNCHANGED <<memory, file, run, hist, remoteVars, togglVars, walkVars>>

\* The process stops in the middle of update_cache
Crash ==
    /\ pc \in Running
    /\ pc' = "crashed"
    /\ memory' = EmptyMemory
    /\ ForgetCalls
    /\ UNCHANGED <<file, err, run, hist, remoteVars, togglVars, cycle>>

\* The steps update_cache takes when every request gets a response
WalkStep == Seed(FALSE) \/ Loop(FALSE) \/ Store \/ Insert \/ Dump \/ Bar

NextWalk ==
    \/ ConstructMissing
    \/ ConstructExisting
    \/ ConstructTruncated
    \/ \E total \in Totals : UpdateCache(total)
    \/ \E failure \in BOOLEAN : Seed(failure)
    \/ \E failure \in BOOLEAN : Loop(failure)
    \/ Store
    \/ Insert
    \/ Dump
    \/ Bar
    \/ Crash

SpecWalk == InitWalk /\ [][NextWalk]_vars

SpecWalkFair == SpecWalk /\ WF_vars(WalkStep)

(***************************************************************************)
(* The cache constructed on files it did not write itself                  *)
(***************************************************************************)
\* A file holding a bare mapping of id to session, without markers
BareFile == [state |-> "written", content |-> ("10" :> Session(10, 2))]
\* A file holding the empty mapping {}
EmptyMappingFile == [state |-> "written", content |-> [k \in {} |-> 0]]
\* A file holding sessions under sleep_sessions, and no markers
NoMarkersFile ==
    [state |-> "written",
     content |-> [sleep_sessions |-> <<[key |-> IntToStr(10), val |-> Session(10, 2)]>>]]

FoundFiles ==
    {NoFile, TruncatedFile, BareFile, EmptyMappingFile, NoMarkersFile,
     WrittenFile(EmptyMemory),
     WrittenFile(SetItemMemory(EmptyMemory, 10, Session(10, 2))),
     WrittenFile(SetItemMemory(SetItemMemory(EmptyMemory, 10, Session(10, 2)),
                               9, Session(9, 3)))}

InitLoad ==
    /\ memory = EmptyMemory
    /\ file \in FoundFiles
    /\ pc = "new"
    /\ err = "none"
    /\ run = 0
    /\ hist = <<>>
    /\ chain = <<>>
    /\ cycleTo = 0
    /\ first_sleepsession_id = 0
    /\ last_sleepsession_id = 0
    /\ resp = None
    /\ http = NoHttp
    /\ calls = 0
    /\ start = NoStart
    /\ frame = NoFrame
    /\ total_items = 0
    /\ cycle = NoCycle
    /\ TogglIdle

\* SleepSessionsCache.__init__ on a JSON file in which a subscription of
\* lines 231-237 does not find its key: KeyError, and no object is made
ConstructKeyError ==
    /\ run < MaxRuns
    /\ pc \notin Running
    /\ file.state = "written"
    /\ ~Loadable(file.content)
    /\ memory' = EmptyMemory
    /\ pc' = "new"
    /\ err' = "KeyError"
    /\ run' = run + 1
    /\ UNCHANGED <<file, hist, remoteVars, togglVars, cycle>>
    /\ ForgetCalls

NextLoad ==
    \/ ConstructMissing
    \/ ConstructExisting
    \/ ConstructTruncated
    \/ ConstructKeyError
    \/ \E session \in Sessions : CacheInsert(session)

SpecLoad == InitLoad /\ [][NextLoad]_vars

(***************************************************************************)
(* sleep_session called by a client of SleepSessions                       *)
(***************************************************************************)
InitFetch ==
    /\ memory = EmptyMemory
    /\ file = NoFile
    /\ pc = "new"
    /\ err = "none"
    /\ run = 0
    /\ hist = <<>>
    /\ chain \in Chains
    /\ cycleTo = 0
    /\ first_sleepsession_id = chain[1]
    /\ last_sleepsession_id = chain[Len(chain)]
    /\ resp = None
    /\ http = NoHttp
    /\ calls = 0
    /\ start = NoStart
    /\ frame = NoFrame
    /\ total_items = 0
    /\ cycle = NoCycle
    /\ TogglIdle

\* sleep_session(session_id, next_, previous) is called: lines 335-346
ClientCall(session_id, next_, previous) ==
    /\ pc \in {"ready", "returned", "raised"}
    /\ start' = [memory |-> memory, file |-> file]
    /\ calls' = 0
    /\ http' = NoHttp
    /\ resp' = None
    /\ err' = "none"
    /\ frame' = [caller |-> "client", session_id |-> session_id,
                 next_ |-> next_, previous |-> previous]
    /\ pc' = "call"
    /\ UNCHANGED <<memory, file, run, hist, remoteVars, togglVars, total_items, cycle>>

\* sleep_session lines 347-359 and 365-371 for the client's call
ClientFetch(failure) ==
    /\ pc = "call"
    /\ SleepSession(frame.session_id, frame.next_, frame.previous, failure, "client")
    /\ UNCHANGED <<memory, file, run, hist, remoteVars, togglVars, start, frame, total_items,
                   cycle>>

NextFetch ==
    \/ ConstructMissing
    \/ ConstructExisting
    \/ ConstructTruncated
    \/ \E session_id \in RemoteIds, next_, previous \in BOOLEAN :
          ClientCall(session_id, next_, previous)
    \/ \E failure \in BOOLEAN : ClientFetch(failure)
    \/ Store
    \/ Dump
    \/ Crash

SpecFetch == InitFetch /\ [][NextFetch]_vars

(***************************************************************************)
(* SleepCycle: update_sleep_sessions_cache and the sleep_sessions property *)
(***************************************************************************)
\* list(json.load(cache)['sleep_sessions'].values()), the rows of the
\* DataFrame made on lines 156-158
Table(content) ==
    [i \in 1..Len(content.sleep_sessions) |-> content.sleep_sessions[i].val]

\* The sleep_sessions property, lines 152-160, evaluated on the object c:
\* the object after the evaluation, and what the evaluation gave
ReadProperty(c) ==
    IF c.memo_set
    THEN [c EXCEPT !.returned = "table"]
    ELSE IF ~c.manager
    THEN [c EXCEPT !.returned = "AttributeError"]
    ELSE [c EXCEPT !.memo_set = TRUE, !.memo = Table(file.content),
                   !.returned = "table"]

InitCycle ==
    /\ memory = EmptyMemory
    /\ file = NoFile
    /\ pc = "new"
    /\ err = "none"
    /\ run = 0
    /\ hist = <<>>
    /\ chain \in Chains
    /\ cycleTo = 0
    /\ first_sleepsession_id = chain[1]
    /\ last_sleepsession_id = chain[Len(chain)]
    /\ resp = None
    /\ http = NoHttp
    /\ calls = 0
    /\ start = NoStart
    /\ frame = NoFrame
    /\ total_items = 0
    /\ cycle = NoCycle
    /\ TogglIdle

\* A new SleepCycle object, in a new process
NewSleepCycle ==
    /\ pc \in {"done", "raised"}
    /\ run < MaxRuns
    /\ cycle' = NoCycle
    /\ memory' = EmptyMemory
    /\ pc' = "new"
    /\ err' = "none"
    /\ ForgetCalls
    /\ UNCHANGED <<file, run, hist, remoteVars, togglVars>>

\* update_sleep_sessions_cache, lines 140-150, up to the first test of
\* update_cache: hasattr(self, 'sleep_sessions') evaluates the property;
\* without it a SleepSessions is made, whose cache is constructed from the
\* file; then update_cache(total_items=total) begins
UpdateSleepSessionsCache(total) ==
    /\ pc \in {"new", "done", "raised"}
    /\ LET probed == ReadProperty(cycle)
           has == probed.returned = "table"
           mem == IF has THEN memory
                  ELSE IF file.state = "missing" THEN EmptyMemory
                  ELSE LoadMemory(file.content)
       IN  /\ has \/ run < MaxRuns
           /\ cycle' = [probed EXCEPT !.manager = TRUE, !.returned = "none"]
           /\ memory' = mem
           /\ file' = IF has \/ file.state # "missing" THEN file
                      ELSE WrittenFile(EmptyMemory)
           /\ run' = IF has THEN run ELSE run + 1
           /\ start' = [memory |-> mem, file |-> file']
           /\ pc' = IF SeedNeeded(mem) THEN "seed" ELSE "loop"
    /\ calls' = 0
    /\ http' = NoHttp
    /\ resp' = None
    /\ err' = "none"
    /\ frame' = NoFrame
    /\ total_items' = total
    /\ UNCHANGED <<hist, remoteVars, togglVars>>

\* A read of the sleep_sessions property by the client, lines 152-160
ReadSleepSessions ==
    /\ pc \in {"new", "done", "raised"}
    /\ cycle' = ReadProperty(cycle)
    /\ UNCHANGED <<memory, file, pc, err, run, hist, remoteVars, togglVars, resp, http, calls,
                   start, frame, total_items>>

NextCycle ==
    \/ NewSleepCycle
    \/ \E total \in Totals : UpdateSleepSessionsCache(total)
    \/ ReadSleepSessions
    \/ \E failure \in BOOLEAN : Seed(failure)
    \/ \E failure \in BOOLEAN : Loop(failure)
    \/ Store
    \/ Insert
    \/ Dump
    \/ Bar

SpecCycle == InitCycle /\ [][NextCycle]_vars

(***************************************************************************)
(* Toggl.fetch_details, src/quelf/toggl.py                                 *)
(***************************************************************************)
\* range(earliest_year, current_year + 1) starts at 2006 when nothing is
\* cached (line 96); CurrentYear is datetime.date.today().year
DefaultYear == 2006
CurrentYear == 2007
Years == DefaultYear..CurrentYear
EntryIds == 1..MaxEntries
\* details['per_page'] of the remote's answers
PerPage == 2

Max(S) == CHOOSE x \in S : \A y \in S : y <= x

DictVal(d, k) == d[DictGet(d, k)].val

\* The remote lists a year's entries newest first
RECURSIVE Listing(_)
Listing(S) == IF S = {} THEN <<>> ELSE <<Max(S)>> \o Listing(S \ {Max(S)})

\* self.fetch('/details', ...) for a year and a page, lines 109 and 133-136
RemotePage(year, page) ==
    LET all == Listing(entries[year])
        from == (page - 1) * PerPage + 1
        to == IF page * PerPage < Len(all) THEN page * PerPage ELSE Len(all)
    IN  [total_count |-> Len(all), per_page |-> PerPage, data |-> SubSeq(all, from, to)]

\* The details getter, lines 162-168
Details == IF details_file.state = "missing" THEN EmptyDict ELSE details_file.content

\* Lines 95-97: the largest cached year, or 2006
EarliestYear(result) ==
    IF DictKeys(result) = {} THEN DefaultYear
    ELSE Max({StrToInt(k) : k \in DictKeys(result)})

\* Lines 116-120: the number of entries in the pages held for a year
RECURSIVE SavedCount(_)
SavedCount(year_pages) ==
    IF Len(year_pages) = 0 THEN 0
    ELSE Len(year_pages[1].val.data) + SavedCount(Tail(year_pages))

\* int(np.ceil(total_count / per_page)), line 125
PageCount(details) ==
    (details.total_count + details.per_page - 1) \div details.per_page

\* Line 121: the year is skipped when the held pages count total_count entries
SkipYear(year_pages, details) == SavedCount(year_pages) = details.total_count

\* Lines 128-137: fetch and store the pages from `page` to `pages`
RECURSIVE FetchPages(_, _, _, _)
FetchPages(year_pages, year, page, pages) ==
    IF page > pages THEN year_pages
    ELSE FetchPages(DictSet(year_pages, IntToStr(page), RemotePage(year, page)),
                    year, page + 1, pages)

\* Lines 104-137: one round of the loop over the years
FetchYear(result, year) ==
    LET key == IntToStr(year)
        details == RemotePage(year, 1)
        defaulted == IF key \in DictKeys(result) THEN result
                     ELSE DictSet(result, key, EmptyDict)
        first_stored == DictSet(DictVal(defaulted, key), IntToStr(1), details)
        year_pages == IF SkipYear(first_stored, details) THEN first_stored
                      ELSE FetchPages(first_stored, year, 2, PageCount(details))
    IN  DictSet(defaulted, key, year_pages)

\* Lines 102-103: the loop over the years from `year` to the current year
RECURSIVE FetchYears(_, _)
FetchYears(result, year) ==
    IF year > CurrentYear THEN result
    ELSE FetchYears(FetchYear(result, year), year + 1)

InitToggl ==
    /\ memory = EmptyMemory
    /\ file = NoFile
    /\ pc = "new"
    /\ err = "none"
    /\ run = 0
    /\ hist = <<>>
    /\ chain = <<>>
    /\ cycleTo = 0
    /\ first_sleepsession_id = 0
    /\ last_sleepsession_id = 0
    /\ resp = None
    /\ http = NoHttp
    /\ calls = 0
    /\ start = NoStart
    /\ frame = NoFrame
    /\ total_items = 0
    /\ cycle = NoCycle
    /\ details_file = [state |-> "missing", content |-> EmptyDict]
    /\ entries \in [Years -> SUBSET EntryIds]
    /\ fetches = 0

\* Toggl.fetch_details, lines 83-140, against a remote that stays as it is
\* during the call
FetchDetails ==
    /\ fetches < MaxFetches
    /\ fetches' = fetches + 1
    /\ details_file' = [state |-> "written",
                        content |-> FetchYears(Details, EarliestYear(Details))]
    /\ UNCHANGED <<entries, sleepVars>>

\* Between two calls the user adds or deletes a time entry of some year
RemoteChanges(year, id) ==
    /\ fetches < MaxFetches
    /\ entries' = [entries EXCEPT ![year] =
                      IF id \in @ THEN @ \ {id} ELSE @ \cup {id}]
    /\ UNCHANGED <<details_file, fetches, sleepVars>>

NextToggl ==
    \/ FetchDetails
    \/ \E year \in Years, id \in EntryIds : RemoteChanges(year, id)

SpecToggl == InitToggl /\ [][NextToggl]_vars

(***************************************************************************)
(* Properties of the walk (SpecWalk, SpecWalkFair)                         *)
(***************************************************************************)
\* The remote is a linear chain on which the newest boundary id is reached
\* from the oldest boundary id
LinearReach ==
    /\ cycleTo = 0
    /\ Index(first_sleepsession_id) # 0
    /\ Index(first_sleepsession_id) <= Index(last_sleepsession_id)

\* The dict of the chain's records from position i to position j
Segment(i, j) ==
    [k \in 1..(j - i + 1) |->
        [key |-> chain[i + k - 1], val |-> RemoteRecord(chain[i + k - 1])]]

\* The cache a walk from the oldest to the newest boundary id ends with
ExpectedMemory ==
    [sleep_sessions |-> Segment(Index(first_sleepsession_id), Index(last_sleepsession_id)),
     newest_session_id |-> last_sleepsession_id,
     first_session_id |-> first_sleepsession_id]

\* d is an initial part of e
IsPrefix(d, e) == Len(d) <= Len(e) /\ SubSeq(e, 1, Len(d)) = d

\* C1: an update_cache that started on an empty cache and completed, over a
\* linear chain with the newest boundary id reachable from the oldest, leaves
\* exactly the chain's records from the oldest to the newest boundary id,
\* first_session_id the oldest and newest_session_id the newest boundary id.
C1_WalkFillsCache ==
    (pc = "done" /\ Length(start.memory) = 0 /\ LinearReach)
        => memory = ExpectedMemory

\* The scenario of the specification: oldest 10, newest 12
C1_Witness ==
    /\ pc = "done"
    /\ Length(start.memory) = 0
    /\ LinearReach
    /\ first_sleepsession_id = 10
    /\ last_sleepsession_id = 12
    /\ DictKeys(memory.sleep_sessions) = {10, 11, 12}
    /\ calls = 3

\* C2: an update_cache run by a SleepSessions built from the persisted file
\* after an interrupted walk asks first for the record after the persisted
\* newest_session_id, never gets a record that is already cached, and when it
\* completes leaves the cache and the file an uninterrupted walk leaves.
C2_ResumedWalk ==
    (run >= 2 /\ LinearReach /\ pc \in Running \cup {"done"}) =>
        /\ (calls = 1 /\ Length(start.memory) > 0)
              => (http.next /\ http.id = start.memory.newest_session_id)
        /\ pc = "fetched" => ~Contains(memory, resp.id)
        /\ pc = "done" => (memory = ExpectedMemory /\ file = WrittenFile(ExpectedMemory))

\* A second construction found part of the chain cached and the walk completed
C2_Witness ==
    /\ pc = "done"
    /\ run >= 2
    /\ LinearReach
    /\ Length(start.memory) >= 1
    /\ Length(start.memory) < Length(memory)
    /\ calls >= 1
    /\ memory = ExpectedMemory

\* C3: update_cache calls the cache's insert only for an id that is not in
\* the cache, so that each record is inserted, and persisted, once.
C3_InsertOnlyNew ==
    pc = "insert" => ~Contains(memory, resp.id)

\* The newest boundary id is reached by NEXT queries from where the walk is
ReachFromHere ==
    /\ cycleTo = 0
    /\ Index(last_sleepsession_id) # 0
    /\ IF Length(memory) = 0
       THEN Index(first_sleepsession_id) \in 1..Index(last_sleepsession_id)
       ELSE \/ Contains(memory, last_sleepsession_id)
            \/ Index(Newest(memory).id) \in 1..Index(last_sleepsession_id)

\* The newest boundary id was reached by NEXT queries from where the current
\* update_cache began
ReachAtStart ==
    /\ cycleTo = 0
    /\ Index(last_sleepsession_id) # 0
    /\ IF Length(start.memory) = 0
       THEN Index(first_sleepsession_id) \in 1..Index(last_sleepsession_id)
       ELSE \/ Contains(start.memory, last_sleepsession_id)
            \/ Index(Newest(start.memory).id) \in 1..Index(last_sleepsession_id)

\* C4: on a linear chain on which the newest boundary id is reachable from
\* the cache's newest record, an update_cache whose requests all succeed ends
\* with the newest boundary id in the cache; and no step taken while the
\* newest boundary id is in the cache makes a remote call.
C4_EndsWithNewestCached ==
    /\ (pc \in {"done", "raised"} /\ frame.caller = "update_cache"
            /\ ReachAtStart /\ err # "ConnectionError")
          => Contains(memory, last_sleepsession_id)
    /\ (pc = "fetched" /\ frame.caller = "update_cache")
          => ~Contains(memory, last_sleepsession_id)

\* What does hold of the loop: under fairness of update_cache's own steps it
\* ends, by returning or by the progress bar's ValueError, unless a request
\* fails or the process stops; and while the newest boundary id is in the
\* cache no step makes a remote call.
LoopEndsOrBarRaises ==
    /\ (pc \in Running /\ ReachFromHere)
          ~> \/ pc \in {"done", "crashed"}
             \/ pc = "raised" /\ err \in {"ConnectionError", "ValueError: Value out of range"}
    /\ [][(pc \in Running /\ Contains(memory, last_sleepsession_id) /\ pc' # "crashed")
             => (calls' = calls /\ http' = http)]_vars

\* C5: an update_cache that starts with the newest boundary id in the cache
\* makes no remote call and leaves the memory and the file as they were.
C5_NothingToDo ==
    (pc \in Running \cup {"done"} /\ Contains(start.memory, last_sleepsession_id))
        => /\ calls = 0
           /\ http = NoHttp
           /\ memory = start.memory
           /\ file = start.file

\* update_cache returned on a cache that already held the three records
C5_Witness ==
    /\ pc = "done"
    /\ Contains(start.memory, last_sleepsession_id)
    /\ Length(start.memory) = 3
    /\ start.memory.newest_session_id = last_sleepsession_id
    /\ calls = 0

\* C6: when NEXT of the last record of the chain is answered with a body that
\* is not JSON while the newest boundary id is not cached, update_cache has
\* raised "No next sleepsession", and the records stored before are all in
\* the cache and in the file.
C6_NoNextPropagates ==
    (/\ pc \in Running \cup {"done", "raised"}
     /\ http.next
     /\ http.outcome = "nonjson"
     /\ cycleTo = 0
     /\ http.id = chain[Len(chain)])
        => /\ pc = "raised"
           /\ err = "ValueError: No next sleepsession"
           /\ ~Contains(memory, last_sleepsession_id)
           /\ IsPrefix(start.memory.sleep_sessions, memory.sleep_sessions)
           /\ Length(memory) = Length(start.memory) + calls - 1
           /\ memory.newest_session_id = http.id
           /\ file = WrittenFile(memory)

\* A walk that stored records and then ran off the end of the chain
C6_Witness ==
    /\ pc = "raised"
    /\ err = "ValueError: No next sleepsession"
    /\ http.outcome = "nonjson"
    /\ cycleTo = 0
    /\ http.id = chain[Len(chain)]
    /\ calls >= 3
    /\ Length(memory) > Length(start.memory)
    /\ ~Contains(memory, last_sleepsession_id)

(***************************************************************************)
(* Properties of the cache interface (SpecCache)                           *)
(***************************************************************************)
HistIds == {hist[i].id : i \in 1..Len(hist)}

DistinctInserts == \A i, j \in 1..Len(hist) : i # j => hist[i].id # hist[j].id

\* C7: inserting a session whose id is already in the cache fails with
\* DuplicateInsert and leaves the memory (payloads, first and newest id)
\* and the file as they were.
C7_DuplicateInsertRejected ==
    [][\A session \in Sessions :
          (CacheInsert(session) /\ Contains(memory, session.id))
              => (err' = "DuplicateInsert" /\ memory' = memory /\ file' = file)]_vars

\* C8: first_session_id and newest_session_id of a constructed cache are
\* both unset (0) with no sessions held, or both are keys of sleep_sessions.
C8_MarkersInvariant ==
    pc = "ready" =>
        \/ /\ memory.first_session_id = 0
           /\ memory.newest_session_id = 0
           /\ Length(memory) = 0
        \/ /\ memory.first_session_id # 0
           /\ memory.newest_session_id # 0
           /\ Contains(memory, memory.first_session_id)
           /\ Contains(memory, memory.newest_session_id)

\* A reloaded cache holding several sessions whose first and newest differ
C8_Witness ==
    /\ pc = "ready"
    /\ run >= 2
    /\ Length(memory) >= 2
    /\ memory.first_session_id # memory.newest_session_id
    /\ memory.first_session_id > memory.newest_session_id

\* C9: first is the payload of the first session ever inserted, newest the
\* payload of the last one inserted, also after a reload; both are None
\* while nothing has been inserted.
C9_FirstAndNewest ==
    pc = "ready" =>
        IF hist = <<>>
        THEN First(memory) = None /\ Newest(memory) = None
        ELSE First(memory) = hist[1] /\ Newest(memory) = hist[Len(hist)]

\* C10: after inserts with pairwise distinct ids the length is the number
\* of inserts, exactly the inserted ids are contained, and each inserted id
\* looks up to the payload inserted for it.
C10_InsertsAreHeld ==
    (pc = "ready" /\ DistinctInserts) =>
        /\ Length(memory) = Len(hist)
        /\ \A id \in CacheIds : Contains(memory, id) <=> id \in HistIds
        /\ \A i \in 1..Len(hist) : GetItem(memory, hist[i].id) = hist[i]

\* Distinct ids inserted, a two-digit id among them, and the cache reloaded
C10_Witness ==
    /\ pc = "ready"
    /\ run >= 2
    /\ DistinctInserts
    /\ Len(hist) >= 2
    /\ 10 \in HistIds
    /\ Length(memory) = Len(hist)

\* C11: at every point where the cache can be constructed anew from its
\* path, the memory the constructor would read from the file has the same
\* sessions under the same integer ids in the same order, the same first and
\* the same newest as the live cache.
C11_RoundTrip ==
    pc = "ready" =>
        LET loaded == LoadMemory(file.content)
        IN  /\ loaded.sleep_sessions = memory.sleep_sessions
            /\ loaded.first_session_id = memory.first_session_id
            /\ loaded.newest_session_id = memory.newest_session_id
            /\ First(loaded) = First(memory)
            /\ Newest(loaded) = Newest(memory)

\* A cache constructed again after inserts, a two-digit id among its keys
C11_Witness ==
    /\ pc = "ready"
    /\ run = MaxRuns
    /\ Len(hist) >= 2
    /\ Contains(memory, 10)
    /\ memory.first_session_id < memory.newest_session_id
    /\ LoadMemory(file.content) = memory

(***************************************************************************)
(* Properties of the file                                                  *)
(***************************************************************************)
\* The file is complete and holds, read back key by key, what mem holds
FileHolds(mem) ==
    /\ file.state = "written"
    /\ Len(file.content.sleep_sessions) = Length(mem)
    /\ \A i \in 1..Length(mem) :
          /\ StrToInt(file.content.sleep_sessions[i].key) = mem.sleep_sessions[i].key
          /\ file.content.sleep_sessions[i].val = mem.sleep_sessions[i].val
    /\ file.content.first_session_id = mem.first_session_id
    /\ file.content.newest_session_id = mem.newest_session_id

\* C12: wherever update_cache and sleep_session are outside __setitem__,
\* that is whenever every insert made so far has returned, the file is
\* complete and holds all sessions, the first and the newest id of the memory.
C12_WriteThrough ==
    pc \in {"ready", "seed", "loop", "fetched", "insert", "bar", "done", "raised",
            "returned"}
        => FileHolds(memory)

\* The second insert of an update_cache that started empty has just returned
C12_Witness ==
    /\ pc = "bar"
    /\ frame.next_
    /\ Length(start.memory) = 0
    /\ Length(memory) = 2
    /\ FileHolds(memory)

\* C13: the file is one flat mapping: no session sits beneath a field of its
\* own, and the file of a cache that holds nothing is the empty mapping.
C13_FlatFile ==
    pc = "ready" =>
        /\ "sleep_sessions" \notin DOMAIN file.content
        /\ Length(memory) = 0 => DOMAIN file.content = {}

\* C14: a cache constructed where there was no file is empty, first and
\* newest are None, the file exists when the constructor has returned, and
\* a construction from that file is empty again.
C14_ConstructOnMissingPath ==
    (pc = "ready" /\ hist = <<>>) =>
        /\ Length(memory) = 0
        /\ First(memory) = None
        /\ Newest(memory) = None
        /\ file.state = "written"
        /\ Length(LoadMemory(file.content)) = 0
        /\ First(LoadMemory(file.content)) = None
        /\ Newest(LoadMemory(file.content)) = None

\* The second construction on a path that had no file, nothing inserted
C14_Witness ==
    /\ pc = "ready"
    /\ run = 2
    /\ hist = <<>>
    /\ Length(memory) = 0
    /\ file.state = "written"

(***************************************************************************)
(* Properties of construction on a found file (SpecLoad)                   *)
(***************************************************************************)
MarkerFields == {"sleep_sessions", "newest_session_id", "first_session_id"}

\* The two shapes a file may have: a bare mapping of id to session without
\* markers, or a mapping with the sessions and both markers as fields
BareShape(content) == DOMAIN content \cap MarkerFields = {}
FieldsShape(content) == MarkerFields \subseteq DOMAIN content

\* C15: constructing the cache on an existing file of either accepted shape
\* succeeds and gives a cache holding the sessions of the file; on an
\* existing file of any other shape it fails and the file is left as it was.
C15_BothShapesLoad ==
    [][(run' = run + 1 /\ file.state # "missing") =>
          IF file.state = "written" /\ BareShape(file.content)
          THEN /\ pc' = "ready"
               /\ err' = "none"
               /\ Length(memory') = Cardinality(DOMAIN file.content)
          ELSE IF file.state = "written" /\ FieldsShape(file.content)
          THEN /\ pc' = "ready"
               /\ err' = "none"
               /\ Length(memory') = Len(file.content.sleep_sessions)
          ELSE /\ pc' = "new"
               /\ err' # "none"
               /\ file' = file]_vars

(***************************************************************************)
(* Properties of sleep_session called by a client (SpecFetch)              *)
(***************************************************************************)
\* The client's sleep_session is past its request, or has returned
Fetched == frame.caller = "client" /\ pc \in {"fetched", "dump_store", "returned", "raised"}

\* C16: when the body of the response is not JSON, sleep_session raises
\* "No next sleepsession" for a NEXT request, "No previous sleepsession" for
\* a PREVIOUS one and the parse failure itself otherwise; the memory and the
\* file are as they were when it was called.
C16_NonJsonRaises ==
    (Fetched /\ http.outcome = "nonjson") =>
        /\ pc = "raised"
        /\ err = IF frame.next_ THEN "ValueError: No next sleepsession"
                 ELSE IF frame.previous THEN "ValueError: No previous sleepsession"
                 ELSE "JSONDecodeError"
        /\ memory = start.memory
        /\ file = start.file

\* A request without direction for an id the remote does not have, made on
\* a cache that holds sessions
C16_Witness ==
    /\ Fetched
    /\ http.outcome = "nonjson"
    /\ ~frame.next_
    /\ ~frame.previous
    /\ err = "JSONDecodeError"
    /\ Length(memory) >= 1

\* C17: a call without direction for an id in the cache returns the cached
\* session and makes no remote call; a call for the next or the previous
\* session makes exactly one remote call, for the given id, whatever the
\* cache holds.
C17_OnlyExactIsServedFromCache ==
    Fetched =>
        IF frame.next_ \/ frame.previous
        THEN /\ calls = 1
             /\ http.outcome # "none"
             /\ http.id = frame.session_id
        ELSE Contains(start.memory, frame.session_id) =>
                /\ calls = 0
                /\ http = NoHttp
                /\ pc = "returned"
                /\ resp = GetItem(start.memory, frame.session_id)
                /\ memory = start.memory

\* A NEXT call whose id and whose answer were both in the cache
C17_Witness ==
    /\ Fetched
    /\ pc = "returned"
    /\ frame.next_
    /\ calls = 1
    /\ Contains(start.memory, frame.session_id)
    /\ Contains(start.memory, resp.id)

\* C18: when sleep_session has returned after a JSON response, it returned
\* the session of the response and that session's id is in the cache; if
\* the id was in the cache when it was called the memory and the file are
\* as they were, else the session was set and the file holds the memory.
C18_StoresOnlyNew ==
    (Fetched /\ pc = "returned" /\ http.outcome = "json") =>
        /\ resp = RemoteRecord(RemoteAnswer(frame.session_id, frame.next_, frame.previous))
        /\ Contains(memory, resp.id)
        /\ IF Contains(start.memory, resp.id)
           THEN memory = start.memory /\ file = start.file
           ELSE /\ memory = SetItemMemory(start.memory, resp.id, resp)
                /\ FileHolds(memory)

\* A PREVIOUS call answered with a session that was in the cache and was not
\* the newest one
C18_Witness ==
    /\ Fetched
    /\ pc = "returned"
    /\ http.outcome = "json"
    /\ frame.previous
    /\ ~frame.next_
    /\ Contains(start.memory, resp.id)
    /\ start.memory.newest_session_id # resp.id
    /\ memory = start.memory

(***************************************************************************)
(* Properties of update_cache's argument and of SleepCycle                 *)
(***************************************************************************)
\* C19: total_items has no effect on what update_cache does: whatever its
\* value, the step after an insert goes back to the loop test and raises
\* nothing, as it does when total_items is None.
C19_TotalItemsHasNoEffect ==
    [][Bar => (pc' = "loop" /\ err' = err)]_vars

\* The sessions of the cache, in insertion order
CachedSessions == [i \in 1..Length(memory) |-> memory.sleep_sessions[i].val]

\* C20: the table a read of sleep_sessions gives has one entry for each
\* session of the cache, in insertion order, and is empty for an empty
\* cache, at every read.
C20_TableIsTheCache ==
    cycle.returned = "table" => cycle.memo = CachedSessions

(***************************************************************************)
(* Properties of interrupted writes, of the walk's shape and of id 0       *)
(***************************************************************************)
\* C21: when the process stops, also in the middle of the rewrite of the
\* file by __setitem__, the file it leaves is a complete document that the
\* constructor can load, holding the memory as it is after the insert or as
\* it was before it.
C21_CrashLeavesLoadableFile ==
    [][Crash =>
          /\ file'.state = "written"
          /\ Loadable(file'.content)
          /\ pc \in {"dump_store", "dump_insert"} =>
                \/ LoadMemory(file'.content) = memory
                \/ SetItemMemory(LoadMemory(file'.content), resp.id, resp) = memory]_vars

\* mem holds the records of the chain from the oldest boundary id on, without
\* a gap, in the chain's order, its markers at the two ends; or nothing
PrefixFrom(mem) ==
    IF Length(mem) = 0
    THEN mem.first_session_id = 0 /\ mem.newest_session_id = 0
    ELSE LET k == Index(first_sleepsession_id)
             n == Length(mem)
         IN  /\ k # 0
             /\ k + n - 1 <= Len(chain)
             /\ mem.sleep_sessions = Segment(k, k + n - 1)
             /\ mem.first_session_id = first_sleepsession_id
             /\ mem.newest_session_id = chain[k + n - 1]

\* C22: over a linear chain, in every state of update_cache started on an
\* empty cache, stopped and resumed any number of times, the cache holds a
\* gapless run of the chain's records that begins at the oldest boundary id,
\* first_session_id is the oldest boundary id and newest_session_id the id
\* of the last record held; so does every complete file.
C22_PrefixInvariant ==
    cycleTo = 0 =>
        /\ PrefixFrom(memory)
        /\ file.state = "written" => PrefixFrom(LoadMemory(file.content))

\* An update_cache resumed after a stop, three records held
C22_Witness ==
    /\ cycleTo = 0
    /\ pc \in Running \cup {"done"}
    /\ run >= 2
    /\ Length(start.memory) \in 1..2
    /\ Length(memory) = 3
    /\ PrefixFrom(memory)

\* C23: an insert with id 0 fails on the assertion and leaves the memory and
\* the file as they were; 0 is never a key of sleep_sessions, and in a
\* constructed cache a marker is 0 exactly when no session is held.
C23_ZeroIsReserved ==
    /\ [](/\ ~Contains(memory, 0)
          /\ pc = "ready" =>
                /\ memory.first_session_id = 0 <=> Length(memory) = 0
                /\ memory.newest_session_id = 0 <=> Length(memory) = 0)
    /\ [][\A rating \in Ratings :
             CacheInsert(Session(0, rating))
                 => (err' = "AssertionError" /\ memory' = memory /\ file' = file)]_vars

\* An insert with id 0 has just been refused by a reloaded cache that holds
\* sessions
C23_Witness ==
    /\ pc = "ready"
    /\ err = "AssertionError"
    /\ run >= 2
    /\ Length(memory) >= 1
    /\ file = WrittenFile(memory)

(***************************************************************************)
(* Properties of Toggl.fetch_details (SpecToggl)                           *)
(***************************************************************************)
\* The entries in the pages held for a year, page after page
RECURSIVE StoredEntries(_)
StoredEntries(year_pages) ==
    IF Len(year_pages) = 0 THEN <<>>
    ELSE year_pages[1].val.data \o StoredEntries(Tail(year_pages))

\* The pages held for the year are exactly the remote's entries, each once
HoldsYear(content, year) ==
    /\ IntToStr(year) \in DictKeys(content)
    /\ LET stored == StoredEntries(DictVal(content, IntToStr(year)))
       IN  /\ Len(stored) = Cardinality(entries[year])
           /\ {stored[i] : i \in 1..Len(stored)} = entries[year]

\* The year is held in `after` as it was in `before`, or in neither
KeepsYear(before, after, year) ==
    LET key == IntToStr(year)
    IN  IF key \in DictKeys(before)
        THEN key \in DictKeys(after) /\ DictVal(after, key) = DictVal(before, key)
        ELSE key \notin DictKeys(after)

\* C24: fetch_details, whatever details file it starts from, saves a mapping
\* that for every year from the start year (the largest cached year, or
\* 2006) to the current year holds exactly the remote's entries of that
\* year, each once, and that keeps the years before the start year as they
\* were.
C24_DetailsMatchRemote ==
    [][FetchDetails =>
          \A year \in Years :
              IF year >= EarliestYear(Details)
              THEN HoldsYear(details_file'.content, year)
              ELSE KeepsYear(Details, details_file'.content, year)]_vars

====
